---- MODULE Spec2Model ----
(***************************************************************************)
(* Deterministic pushdown automata (automata/ap.py, automata/apd.py) and   *)
(* the complement construction of Theorem 2.23 (automata/apdc.py).         *)
(*                                                                         *)
(* An automaton is a record with the seven attributes AP.__init__ sets.    *)
(* State identifiers are strings (tuples <<q, i>> for the states of a      *)
(* complement automaton); an input word, a push string and a stack are     *)
(* sequences of one-character strings, the last element of a stack being   *)
(* its top.  Python's None is the value None below where a state or an     *)
(* input symbol is expected, and NoTuple where a tuple is.                 *)
(***************************************************************************)
EXTENDS Integers, Sequences, FiniteSets, TLC

VARIABLES
    P,        \* the automaton the builder works on / the source automaton
    C,        \* the automaton crear_automata_complemento returned, or None
    err,      \* the raise statement that ended the last call, or NoError
    call,     \* the last call of the execution engine, with its arguments
    ret       \* what that call returned

vars == <<P, C, err, call, ret>>

-----------------------------------------------------------------------------
(* Values *)

None == "None"

SIMBOLO_LAMBDA == None

EMPTY == "bottom"

NoError == "none"

\* AP.__init__
NewAP ==
    [ states               |-> {},
      initial_state        |-> None,
      final_states         |-> {},
      transitions          |-> <<>>,
      input_alphabet       |-> {},
      stack_alphabet       |-> {},
      initial_stack_symbol |-> EMPTY ]

\* The set of characters of a string
Chars(s) == { s[i] : i \in 1..Len(s) }

\* reversed(s)
Reversed(s) == [ i \in 1..Len(s) |-> s[Len(s) + 1 - i] ]

\* What a call leaves behind: the automaton, and the raise that ended it
Returned(A) == [ aut |-> A, err |-> NoError ]

Raised(A, e) == [ aut |-> A, err |-> e ]

-----------------------------------------------------------------------------
(* The builder: AP.add_state, AP.mark_initial_state,                       *)
(* AP.set_initial_stack_symbol, APD.add_transition                         *)

\* add_state with the state marked final ahead of the membership test
add_state_marking_first(A, state, final) ==
    IF state \in A.states
    THEN Raised([ A EXCEPT !.final_states = IF final THEN @ \cup {state} ELSE @ ],
                "add_state: ya pertenece")
    ELSE Returned([ A EXCEPT !.states = @ \cup {state},
                             !.final_states = IF final THEN @ \cup {state} ELSE @ ])

\* add_state with the argument final left unread
add_state_never_final(A, state, final) ==
    IF state \in A.states
    THEN Raised(A, "add_state: ya pertenece")
    ELSE Returned([ A EXCEPT !.states = @ \cup {state} ])

add_state(A, state, final) ==
    IF state \in A.states
    THEN Raised(A, "add_state: ya pertenece")
    ELSE Returned([ A EXCEPT !.states = @ \cup {state},
                             !.final_states = IF final THEN @ \cup {state} ELSE @ ])

\* mark_initial_state without the membership test
mark_initial_state_untested(A, state) ==
    Returned([ A EXCEPT !.initial_state = state ])

mark_initial_state(A, state) ==
    IF state \notin A.states
    THEN Raised(A, "mark_initial_state: no pertenece")
    ELSE Returned([ A EXCEPT !.initial_state = state ])

set_initial_stack_symbol(A, symbol) ==
    Returned([ A EXCEPT !.initial_stack_symbol = symbol,
                        !.stack_alphabet = @ \cup {symbol} ])

\* add_transition without the test for a lambda transition on the same
\* state and stack top
add_transition_without_lambda_test(A, state, new_state, input_symbol, stack_top, stack_push) ==
    LET key == <<state, input_symbol, stack_top>>
    IN  IF state \notin A.states
        THEN Raised(A, "add_transition: state no pertenece")
        ELSE IF new_state \notin A.states
        THEN Raised(A, "add_transition: new_state no pertenece")
        ELSE IF key \in DOMAIN A.transitions
        THEN Raised(A, "add_transition: ya existe una transicion")
        ELSE IF input_symbol = None
                /\ \E symbol \in A.input_alphabet :
                      <<state, symbol, stack_top>> \in DOMAIN A.transitions
        THEN Raised(A, "add_transition: ya existe transicion con simbolo")
        ELSE Returned([ A EXCEPT
                 !.transitions = (key :> <<new_state, stack_push>>) @@ @,
                 !.input_alphabet =
                     IF input_symbol # None THEN @ \cup {input_symbol} ELSE @,
                 !.stack_alphabet = @ \cup {stack_top} \cup Chars(stack_push) ])

\* add_transition without the test for transitions on a symbol from the same
\* state and stack top
add_transition_without_symbol_test(A, state, new_state, input_symbol, stack_top, stack_push) ==
    LET key == <<state, input_symbol, stack_top>>
        epsilon_key == <<state, None, stack_top>>
    IN  IF state \notin A.states
        THEN Raised(A, "add_transition: state no pertenece")
        ELSE IF new_state \notin A.states
        THEN Raised(A, "add_transition: new_state no pertenece")
        ELSE IF key \in DOMAIN A.transitions
        THEN Raised(A, "add_transition: ya existe una transicion")
        ELSE IF input_symbol # None /\ epsilon_key \in DOMAIN A.transitions
        THEN Raised(A, "add_transition: ya existe una transicion lambda")
        ELSE Returned([ A EXCEPT
                 !.transitions = (key :> <<new_state, stack_push>>) @@ @,
                 !.input_alphabet =
                     IF input_symbol # None THEN @ \cup {input_symbol} ELSE @,
                 !.stack_alphabet = @ \cup {stack_top} \cup Chars(stack_push) ])

add_transition(A, state, new_state, input_symbol, stack_top, stack_push) ==
    LET key == <<state, input_symbol, stack_top>>
        epsilon_key == <<state, None, stack_top>>
    IN  IF state \notin A.states
        THEN Raised(A, "add_transition: state no pertenece")
        ELSE IF new_state \notin A.states
        THEN Raised(A, "add_transition: new_state no pertenece")
        ELSE IF key \in DOMAIN A.transitions
        THEN Raised(A, "add_transition: ya existe una transicion")
        ELSE IF input_symbol # None /\ epsilon_key \in DOMAIN A.transitions
        THEN Raised(A, "add_transition: ya existe una transicion lambda")
        ELSE IF input_symbol = None
                /\ \E symbol \in A.input_alphabet :
                      <<state, symbol, stack_top>> \in DOMAIN A.transitions
        THEN Raised(A, "add_transition: ya existe transicion con simbolo")
        ELSE Returned([ A EXCEPT
                 !.transitions = (key :> <<new_state, stack_push>>) @@ @,
                 !.input_alphabet =
                     IF input_symbol # None THEN @ \cup {input_symbol} ELSE @,
                 !.stack_alphabet = @ \cup {stack_top} \cup Chars(stack_push) ])

\* APD.is_deterministic
is_deterministic(A) ==
    ~ \E k \in DOMAIN A.transitions :
          /\ k[2] = None
          /\ \E symbol \in A.input_alphabet :
                 <<k[1], symbol, k[3]>> \in DOMAIN A.transitions

-----------------------------------------------------------------------------
(* Renaming: AP._rename_state, APD._rename_state_in_transitions,           *)
(* AP.normalize_states                                                     *)

\* The renaming of the table that leaves the targets as they are
rename_state_in_keys(T, old_name, new_name) ==
    LET NewKey(k) == <<IF k[1] = old_name THEN new_name ELSE k[1], k[2], k[3]>>
    IN  [ k2 \in { NewKey(k) : k \in DOMAIN T } |->
              T[CHOOSE k \in DOMAIN T : NewKey(k) = k2] ]

\* The transition table with old_name replaced by new_name in the source of
\* every key and in every target.  Python rebuilds the dictionary entry by
\* entry, so of two entries renamed to one key the one stored last survives;
\* a table here keeps no insertion order and one of the two is taken.
rename_state_in_transitions(T, old_name, new_name) ==
    LET NewKey(k) == <<IF k[1] = old_name THEN new_name ELSE k[1], k[2], k[3]>>
        NewTarget(t) == <<IF t[1] = old_name THEN new_name ELSE t[1], t[2]>>
    IN  [ k2 \in { NewKey(k) : k \in DOMAIN T } |->
              NewTarget(T[CHOOSE k \in DOMAIN T : NewKey(k) = k2]) ]

\* _rename_state that renames in self.states and nowhere else
rename_state_in_states_only(A, old_name, new_name) ==
    [ A EXCEPT !.states = (@ \ {old_name}) \cup {new_name} ]

rename_state(A, old_name, new_name) ==
    IF old_name = new_name
    THEN A
    ELSE [ A EXCEPT
             !.states = (@ \ {old_name}) \cup {new_name},
             !.initial_state = IF old_name = @ THEN new_name ELSE @,
             !.final_states = IF old_name \in @
                              THEN (@ \ {old_name}) \cup {new_name} ELSE @,
             !.transitions = rename_state_in_transitions(@, old_name, new_name) ]

\* The sequences that list every element of S once: the orders in which
\* Python may iterate over the set S
Orders(S) ==
    { o \in [1..Cardinality(S) -> S] :
          \A i, j \in 1..Cardinality(S) : i # j => o[i] # o[j] }

\* f"q{i}"
QName(i) == "q" \o ToString(i)

\* new_names with f"q{i}" in place of f"q{i + 1}"
NewNamesFromZero(A, order) ==
    (IF A.initial_state # None THEN << <<A.initial_state, "q0">> >> ELSE << >>)
    \o [ i \in 1..Len(order) |-> <<order[i], "q" \o ToString(i - 1)>> ]

\* new_names, a dictionary in insertion order, as the sequence of its items
\* <<old_name, new_name>>; order is the order enumerate() visits
\* self.states - {self.initial_state} in
NewNames(A, order) ==
    (IF A.initial_state # None THEN << <<A.initial_state, "q0">> >> ELSE << >>)
    \o [ i \in 1..Len(order) |-> <<order[i], QName(i)>> ]

\* del new_names[old_name]
WithoutItem(items, i) ==
    [ j \in 1..(Len(items) - 1) |-> IF j < i THEN items[j] ELSE items[j + 1] ]

\* The renames in the order of new_names, none through a temporary name
OrderedAsInserted(new_names) ==
    [ i \in 1..Len(new_names) |-> <<new_names[i][1], new_names[i][2], FALSE>> ]

\* The while loop that orders the renames: the first item that is a no-op or
\* whose new name is no pending old name, and without one the first item,
\* marked to go through a temporary name
RECURSIVE OrderedNewNames(_)
OrderedNewNames(new_names) ==
    IF Len(new_names) = 0
    THEN << >>
    ELSE LET keys == { new_names[j][1] : j \in 1..Len(new_names) }
             free == { i \in 1..Len(new_names) :
                          \/ new_names[i][1] = new_names[i][2]
                          \/ new_names[i][2] \notin keys }
             i == IF free # {} THEN CHOOSE m \in free : \A n \in free : m <= n
                  ELSE 1
         IN  << <<new_names[i][1], new_names[i][2], free = {}>> >>
             \o OrderedNewNames(WithoutItem(new_names, i))

\* while new_name in self.states: new_name = f"temp:{new_name}"
RECURSIVE TempName(_, _)
TempName(A, new_name) ==
    IF new_name \in A.states THEN TempName(A, "temp:" \o new_name) ELSE new_name

\* The loop that performs the renames, from the i-th on
RECURSIVE DoRenames(_, _, _)
DoRenames(A, ordered, i) ==
    IF i > Len(ordered)
    THEN A
    ELSE LET new_name == IF ordered[i][3] THEN TempName(A, ordered[i][2])
                         ELSE ordered[i][2]
         IN  DoRenames(rename_state(A, ordered[i][1], new_name), ordered, i + 1)

\* state.startswith("temp:"), for a state that is a string
StartsWithTemp(state) == Len(state) >= 5 /\ SubSeq(state, 1, 5) = "temp:"

\* state.split(":")[-1]: what follows the last colon
RECURSIVE AfterLastColon(_, _)
AfterLastColon(state, i) ==
    IF i = 0 THEN state
    ELSE IF SubSeq(state, i, i) = ":" THEN SubSeq(state, i + 1, Len(state))
    ELSE AfterLastColon(state, i - 1)

\* normalize_states without its last loop
StripNothing(A, listing, i) == A

\* The loop that removes the temporary names, over list(self.states) taken
\* in the order listing, from its i-th element on
RECURSIVE StripTemps(_, _, _)
StripTemps(A, listing, i) ==
    IF i > Len(listing)
    THEN A
    ELSE StripTemps(IF StartsWithTemp(listing[i])
                    THEN rename_state(A, listing[i],
                                      AfterLastColon(listing[i], Len(listing[i])))
                    ELSE A,
                    listing, i + 1)

\* The calls of _rename_state the renaming loop makes, from the i-th item
\* on: each with the automaton it is made on, old_name and new_name
RECURSIVE RenameCalls(_, _, _)
RenameCalls(A, ordered, i) ==
    IF i > Len(ordered)
    THEN << >>
    ELSE LET new_name == IF ordered[i][3] THEN TempName(A, ordered[i][2])
                         ELSE ordered[i][2]
         IN  << <<A, ordered[i][1], new_name>> >>
             \o RenameCalls(rename_state(A, ordered[i][1], new_name), ordered, i + 1)

\* The calls of _rename_state the last loop makes
RECURSIVE StripCalls(_, _, _)
StripCalls(A, listing, i) ==
    IF i > Len(listing)
    THEN << >>
    ELSE IF StartsWithTemp(listing[i])
    THEN << <<A, listing[i], AfterLastColon(listing[i], Len(listing[i]))>> >>
         \o StripCalls(rename_state(A, listing[i],
                                    AfterLastColon(listing[i], Len(listing[i]))),
                       listing, i + 1)
    ELSE StripCalls(A, listing, i + 1)

\* normalize_states up to its last loop
Renamed(A, order) == DoRenames(A, OrderedNewNames(NewNames(A, order)), 1)

normalize_states(A, order, listing) == StripTemps(Renamed(A, order), listing, 1)

\* All the calls of _rename_state of one call of normalize_states
AllRenameCalls(A, order, listing) ==
    RenameCalls(A, OrderedNewNames(NewNames(A, order)), 1)
        \o StripCalls(Renamed(A, order), listing, 1)

-----------------------------------------------------------------------------
(* The execution engine: APD.get_transition, APD.step, APD.accepts         *)

\* The None that get_transition and step return in place of a tuple
NoTuple == << >>

get_transition(A, state, input_symbol, stack_top) ==
    IF <<state, input_symbol, stack_top>> \in DOMAIN A.transitions
    THEN A.transitions[<<state, input_symbol, stack_top>>]
    ELSE NoTuple

\* The push with the symbols appended in the order of stack_string
ReplacedInOrder(stack, stack_string) ==
    SubSeq(stack, 1, Len(stack) - 1) \o stack_string

\* new_stack = stack[:-1], then new_stack.append(symbol) for each symbol of
\* reversed(stack_string)
Replaced(stack, stack_string) ==
    SubSeq(stack, 1, Len(stack) - 1) \o Reversed(stack_string)

\* The list passed as stack once step has returned, had step popped and
\* pushed on that list itself
stack_after_step_in_place(A, state, remaining_input, stack) ==
    IF stack = << >> THEN stack ELSE SubSeq(stack, 1, Len(stack) - 1)

\* The list passed as stack once step has returned: new_stack = stack[:-1]
\* is a new list, and step appends to new_stack only
stack_after_step(A, state, remaining_input, stack) == stack

\* step with the lambda transition tried only once the input is consumed
step_lambda_at_end(A, state, remaining_input, stack) ==
    IF stack = << >>
    THEN NoTuple
    ELSE LET stack_top == stack[Len(stack)]
             transition ==
                 get_transition(A, state,
                                IF remaining_input # << >> THEN remaining_input[1]
                                ELSE None,
                                stack_top)
         IN  IF transition = NoTuple
             THEN NoTuple
             ELSE <<transition[1],
                    IF remaining_input # << >> THEN Tail(remaining_input)
                    ELSE remaining_input,
                    Replaced(stack, transition[2])>>

\* step returns None or the tuple <<new_state, remaining_input, new_stack>>
step(A, state, remaining_input, stack) ==
    IF stack = << >>
    THEN NoTuple
    ELSE LET stack_top == stack[Len(stack)]
             symbol_transition ==
                 IF remaining_input # << >>
                 THEN get_transition(A, state, remaining_input[1], stack_top)
                 ELSE NoTuple
             lambda_transition == get_transition(A, state, None, stack_top)
         IN  IF symbol_transition # NoTuple
             THEN <<symbol_transition[1], Tail(remaining_input),
                    Replaced(stack, symbol_transition[2])>>
             ELSE IF lambda_transition # NoTuple
             THEN <<lambda_transition[1], remaining_input,
                    Replaced(stack, lambda_transition[2])>>
             ELSE NoTuple

StepsPerSymbol == 100

BaseSteps == 1000

\* max_steps as twice the bound of the code
MaxStepsDoubled(word) == Len(word) * 200 + 2000

\* max_steps = len(word) * 100 + 1000
MaxSteps(word) == Len(word) * StepsPerSymbol + BaseSteps

\* The acceptance test without the test for consumed input
AcceptingWithInputLeft(A, state, remaining_input, stack, acceptance_mode) ==
    \/ acceptance_mode = "final_state" /\ state \in A.final_states
    \/ acceptance_mode = "empty_stack" /\ stack = << >>

\* The acceptance test accepts makes inside its loop and again after it
Accepting(A, state, remaining_input, stack, acceptance_mode) ==
    /\ remaining_input = << >>
    /\ \/ acceptance_mode = "final_state" /\ state \in A.final_states
       \/ acceptance_mode = "empty_stack" /\ stack = << >>

\* One pass through the while loop of accepts, c holding its local variables
\* and at: "while" (at the loop test), "return" (left by return True) or
\* "break" (left by break, or by the loop test failing)
WhileBody(A, c, acceptance_mode, max_steps) ==
    IF c.at # "while"
    THEN c
    ELSE IF ~ (c.steps < max_steps)
    THEN [ c EXCEPT !.at = "break" ]
    ELSE IF Accepting(A, c.state, c.remaining_input, c.stack, acceptance_mode)
    THEN [ c EXCEPT !.steps = @ + 1, !.at = "return" ]
    ELSE LET result == step(A, c.state, c.remaining_input, c.stack)
         IN  IF result = NoTuple
             THEN [ c EXCEPT !.steps = @ + 1, !.at = "break" ]
             ELSE [ c EXCEPT !.steps = @ + 1,
                             !.state = result[1],
                             !.remaining_input = result[2],
                             !.stack = result[3] ]

\* n passes through the loop.  The passes are taken half by half, which
\* keeps the depth of the evaluation at log n; a pass after the loop was
\* left changes nothing.
RECURSIVE While(_, _, _, _, _)
While(A, c, acceptance_mode, max_steps, n) ==
    IF n = 0 \/ c.at # "while"
    THEN c
    ELSE IF n = 1
    THEN WhileBody(A, c, acceptance_mode, max_steps)
    ELSE LET half == While(A, c, acceptance_mode, max_steps, n \div 2)
         IN  IF half.steps >= 0
             THEN While(A, half, acceptance_mode, max_steps, n - (n \div 2))
             ELSE half

\* The local variables of accepts when its loop is left
accepts_loop(A, word, acceptance_mode) ==
    LET max_steps == MaxSteps(word)
        c0 == [ state |-> A.initial_state, remaining_input |-> word,
                stack |-> <<A.initial_stack_symbol>>, steps |-> 0, at |-> "while" ]
    IN  While(A, c0, acceptance_mode, max_steps, max_steps + 1)

\* What accepts returns, c being its local variables when the loop is left
accepts_return(A, c, acceptance_mode) ==
    IF c.at = "return"
    THEN TRUE
    ELSE Accepting(A, c.state, c.remaining_input, c.stack, acceptance_mode)

accepts(A, word, acceptance_mode) ==
    accepts_return(A, accepts_loop(A, word, acceptance_mode), acceptance_mode)

-----------------------------------------------------------------------------
(* Straight-line code that calls the builder: a sequence of calls, each a  *)
(* tuple of the method's name and its arguments, run until one raises      *)

Apply(A, c) ==
    CASE c[1] = "add_state" -> add_state(A, c[2], c[3])
      [] c[1] = "mark_initial_state" -> mark_initial_state(A, c[2])
      [] c[1] = "set_initial_stack_symbol" -> set_initial_stack_symbol(A, c[2])
      [] c[1] = "add_transition" -> add_transition(A, c[2], c[3], c[4], c[5], c[6])
      [] c[1] = "set_alphabets" ->
             Returned([ A EXCEPT !.input_alphabet = c[2], !.stack_alphabet = c[3] ])

RECURSIVE Calls(_, _, _)
Calls(r, calls, i) ==
    IF i > Len(calls) \/ r.err # NoError
    THEN r
    ELSE Calls(Apply(r.aut, calls[i]), calls, i + 1)

\* The elements of a set in the order a for loop visits them (one order)
RECURSIVE SeqOf(_)
SeqOf(S) ==
    IF S = {} THEN << >>
    ELSE LET x == CHOOSE y \in S : TRUE IN <<x>> \o SeqOf(S \ {x})

\* The concatenation of a sequence of sequences
RECURSIVE Flat(_)
Flat(ss) == IF ss = << >> THEN << >> ELSE Head(ss) \o Flat(Tail(ss))

-----------------------------------------------------------------------------
(* The complement constructor: APDC.crear_automata_complemento             *)

\* The marker that forgets the final states
MarkerAlwaysZero(A, p) == 0

\* i = 1 if p in self.final_states else 0
Marker(A, p) == IF p \in A.final_states THEN 1 ELSE 0

\* Q' with no final state
ComplementStatesNoneFinal(A) ==
    Flat([ n \in 1..Cardinality(A.states) |->
             << <<"add_state", <<SeqOf(A.states)[n], 0>>, FALSE>>,
                <<"add_state", <<SeqOf(A.states)[n], 1>>, FALSE>>,
                <<"add_state", <<SeqOf(A.states)[n], 2>>, FALSE>> >> ])

\* Q', q0' and F'
ComplementStates(A) ==
    Flat([ n \in 1..Cardinality(A.states) |->
             LET q == SeqOf(A.states)[n]
             IN  << <<"add_state", <<q, 0>>, FALSE>>,
                    <<"add_state", <<q, 1>>, FALSE>>,
                    <<"add_state", <<q, 2>>, TRUE>> >> ])

\* The initial state of C with index 0 whatever the initial state of P
ComplementInitialZero(A) ==
    << <<"mark_initial_state", <<A.initial_state, 0>> >> >>

ComplementInitial(A) ==
    << <<"mark_initial_state",
         <<A.initial_state, IF A.initial_state \in A.final_states THEN 1 ELSE 0>> >> >>

ComplementAlphabets(A) ==
    << <<"set_alphabets", A.input_alphabet, A.stack_alphabet>>,
       <<"set_initial_stack_symbol", A.initial_stack_symbol>> >>

\* Regla (i) without the transitions that leave the states of index 2
ReglaIFromIndexOne(A) ==
    LET keys == SeqOf({ k \in DOMAIN A.transitions : k[2] # SIMBOLO_LAMBDA })
    IN  [ n \in 1..Len(keys) |->
            <<"add_transition", <<keys[n][1], 1>>,
              <<A.transitions[keys[n]][1],
                IF A.transitions[keys[n]][1] \in A.final_states THEN 1 ELSE 0>>,
              keys[n][2], keys[n][3], A.transitions[keys[n]][2]>> ]

\* Regla (i) with index 1 for every target
ReglaIToIndexOne(A) ==
    LET keys == SeqOf({ k \in DOMAIN A.transitions : k[2] # SIMBOLO_LAMBDA })
    IN  Flat([ n \in 1..Len(keys) |->
                 << <<"add_transition", <<keys[n][1], 1>>,
                      <<A.transitions[keys[n]][1], 1>>,
                      keys[n][2], keys[n][3], A.transitions[keys[n]][2]>>,
                    <<"add_transition", <<keys[n][1], 2>>,
                      <<A.transitions[keys[n]][1], 1>>,
                      keys[n][2], keys[n][3], A.transitions[keys[n]][2]>> >> ])

\* Regla (i): the transitions that read a symbol
ReglaI(A) ==
    LET keys == SeqOf({ k \in DOMAIN A.transitions : k[2] # SIMBOLO_LAMBDA })
    IN  Flat([ n \in 1..Len(keys) |->
                 LET q == keys[n][1]
                     input_symbol == keys[n][2]
                     stack_symbol == keys[n][3]
                     p == A.transitions[keys[n]][1]
                     stack_push == A.transitions[keys[n]][2]
                     i == Marker(A, p)
                 IN  << <<"add_transition", <<q, 1>>, <<p, i>>,
                          input_symbol, stack_symbol, stack_push>>,
                        <<"add_transition", <<q, 2>>, <<p, i>>,
                          input_symbol, stack_symbol, stack_push>> >> ])

\* Regla (ii) with the index of the target taken from p for index 1 too
ReglaIIResettingIndex(A) ==
    LET keys == SeqOf({ k \in DOMAIN A.transitions : k[2] = SIMBOLO_LAMBDA })
    IN  Flat([ n \in 1..Len(keys) |->
                 << <<"add_transition", <<keys[n][1], 1>>,
                      <<A.transitions[keys[n]][1], Marker(A, A.transitions[keys[n]][1])>>,
                      SIMBOLO_LAMBDA, keys[n][3], A.transitions[keys[n]][2]>>,
                    <<"add_transition", <<keys[n][1], 0>>,
                      <<A.transitions[keys[n]][1], Marker(A, A.transitions[keys[n]][1])>>,
                      SIMBOLO_LAMBDA, keys[n][3], A.transitions[keys[n]][2]>> >> ])

\* Regla (ii) with index 1 for every target
ReglaIIToIndexOne(A) ==
    LET keys == SeqOf({ k \in DOMAIN A.transitions : k[2] = SIMBOLO_LAMBDA })
    IN  Flat([ n \in 1..Len(keys) |->
                 << <<"add_transition", <<keys[n][1], 1>>,
                      <<A.transitions[keys[n]][1], 1>>,
                      SIMBOLO_LAMBDA, keys[n][3], A.transitions[keys[n]][2]>>,
                    <<"add_transition", <<keys[n][1], 0>>,
                      <<A.transitions[keys[n]][1], 1>>,
                      SIMBOLO_LAMBDA, keys[n][3], A.transitions[keys[n]][2]>> >> ])

\* Regla (ii): the lambda transitions
ReglaII(A) ==
    LET keys == SeqOf({ k \in DOMAIN A.transitions : k[2] = SIMBOLO_LAMBDA })
    IN  Flat([ n \in 1..Len(keys) |->
                 LET q == keys[n][1]
                     stack_symbol == keys[n][3]
                     p == A.transitions[keys[n]][1]
                     stack_push == A.transitions[keys[n]][2]
                     i == Marker(A, p)
                 IN  << <<"add_transition", <<q, 1>>, <<p, 1>>,
                          SIMBOLO_LAMBDA, stack_symbol, stack_push>>,
                        <<"add_transition", <<q, 0>>, <<p, i>>,
                          SIMBOLO_LAMBDA, stack_symbol, stack_push>> >> ])

\* Regla (iii) that pops the stack symbol
ReglaIIIPopping(A) ==
    LET pairs == SeqOf({ x \in A.states \X A.stack_alphabet :
                            <<x[1], SIMBOLO_LAMBDA, x[2]>> \notin DOMAIN A.transitions })
    IN  [ n \in 1..Len(pairs) |->
            <<"add_transition", <<pairs[n][1], 0>>, <<pairs[n][1], 2>>,
              SIMBOLO_LAMBDA, pairs[n][2], << >> >> ]

\* Regla (iii) without the test of has_lambda_transition
ReglaIIIForEveryPair(A) ==
    LET pairs == SeqOf(A.states \X A.stack_alphabet)
    IN  [ n \in 1..Len(pairs) |->
            <<"add_transition", <<pairs[n][1], 0>>, <<pairs[n][1], 2>>,
              SIMBOLO_LAMBDA, pairs[n][2], <<pairs[n][2]>> >> ]

\* Regla (iii): the jump to index 2 where no lambda transition is left
ReglaIII(A) ==
    LET pairs == SeqOf({ x \in A.states \X A.stack_alphabet :
                            <<x[1], SIMBOLO_LAMBDA, x[2]>> \notin DOMAIN A.transitions })
    IN  [ n \in 1..Len(pairs) |->
            <<"add_transition", <<pairs[n][1], 0>>, <<pairs[n][1], 2>>,
              SIMBOLO_LAMBDA, pairs[n][2], <<pairs[n][2]>> >> ]

crear_automata_complemento(A) ==
    Calls(Returned(NewAP),
          ComplementStates(A) \o ComplementInitial(A) \o ComplementAlphabets(A)
              \o ReglaI(A) \o ReglaII(A) \o ReglaIII(A),
          1)

-----------------------------------------------------------------------------
(* The automata of the test files, built by the calls the tests make       *)

\* A Python string as the sequence of its characters
Str(s) == [ i \in 1..Len(s) |-> SubSeq(s, i, i) ]

Build(calls) == Calls(Returned(NewAP), calls, 1).aut

\* test_complemento.py, test_complemento_lenguaje_simple: {a^n b | n >= 1}
TestAnB ==
    Build(<< <<"add_state", "q0", FALSE>>, <<"add_state", "q1", FALSE>>,
             <<"add_state", "q2", TRUE>>, <<"add_state", "trap", FALSE>>,
             <<"mark_initial_state", "q0">>,
             <<"set_initial_stack_symbol", "Z">>,
             <<"add_transition", "q0", "q1", "a", "Z", Str("AZ")>>,
             <<"add_transition", "q1", "q1", "a", "Z", Str("AZ")>>,
             <<"add_transition", "q1", "q1", "a", "A", Str("AA")>>,
             <<"add_transition", "q1", "q2", "b", "Z", Str("Z")>>,
             <<"add_transition", "q1", "q2", "b", "A", Str("A")>>,
             <<"add_transition", "q0", "trap", "b", "Z", Str("Z")>>,
             <<"add_transition", "q2", "trap", "a", "Z", Str("Z")>>,
             <<"add_transition", "q2", "trap", "b", "Z", Str("Z")>>,
             <<"add_transition", "q2", "trap", "a", "A", Str("A")>>,
             <<"add_transition", "q2", "trap", "b", "A", Str("A")>>,
             <<"add_transition", "trap", "trap", "a", "Z", Str("Z")>>,
             <<"add_transition", "trap", "trap", "b", "Z", Str("Z")>>,
             <<"add_transition", "trap", "trap", "a", "A", Str("A")>>,
             <<"add_transition", "trap", "trap", "b", "A", Str("A")>> >>)

\* test_complemento.py, test_complemento_anbn: {aa, bb}
TestAaBb ==
    Build(<< <<"add_state", "q0", FALSE>>, <<"add_state", "q1", FALSE>>,
             <<"add_state", "q2", TRUE>>, <<"add_state", "q3", FALSE>>,
             <<"add_state", "q4", TRUE>>, <<"add_state", "trap", FALSE>>,
             <<"mark_initial_state", "q0">>,
             <<"set_initial_stack_symbol", "Z">>,
             <<"add_transition", "q0", "q1", "a", "Z", Str("Z")>>,
             <<"add_transition", "q1", "q2", "a", "Z", Str("Z")>>,
             <<"add_transition", "q0", "q3", "b", "Z", Str("Z")>>,
             <<"add_transition", "q3", "q4", "b", "Z", Str("Z")>>,
             <<"add_transition", "q1", "trap", "b", "Z", Str("Z")>>,
             <<"add_transition", "q3", "trap", "a", "Z", Str("Z")>>,
             <<"add_transition", "q2", "trap", "a", "Z", Str("Z")>>,
             <<"add_transition", "q2", "trap", "b", "Z", Str("Z")>>,
             <<"add_transition", "q4", "trap", "a", "Z", Str("Z")>>,
             <<"add_transition", "q4", "trap", "b", "Z", Str("Z")>>,
             <<"add_transition", "trap", "trap", "a", "Z", Str("Z")>>,
             <<"add_transition", "trap", "trap", "b", "Z", Str("Z")>> >>)

\* test_pila_simple.py, test_anbn: {a^n b^n | n >= 1}
TestAnBn ==
    Build(<< <<"add_state", "q0", FALSE>>, <<"add_state", "q1", FALSE>>,
             <<"add_state", "qf", TRUE>>,
             <<"mark_initial_state", "q0">>,
             <<"set_initial_stack_symbol", "Z">>,
             <<"add_transition", "q0", "q0", "a", "Z", Str("AZ")>>,
             <<"add_transition", "q0", "q0", "a", "A", Str("AA")>>,
             <<"add_transition", "q0", "q1", "b", "A", Str("")>>,
             <<"add_transition", "q1", "q1", "b", "A", Str("")>>,
             <<"add_transition", "q1", "qf", None, "Z", Str("Z")>> >>)

\* The words the tests try
TestWords ==
    { Str(""), Str("a"), Str("b"), Str("ab"), Str("ba"), Str("aa"), Str("bb"),
      Str("aab"), Str("abb"), Str("aaa"), Str("bbb"), Str("aaab"), Str("aabb") }

-----------------------------------------------------------------------------
(* Small automata, each built by the builder: its states added, "q0"       *)
(* marked initial, "Z" set as the initial stack symbol, then transitions   *)
(* added                                                                   *)

\* The subsets of S of at most k elements
RECURSIVE UpTo(_, _)
UpTo(S, k) ==
    IF k = 0 THEN { {} }
    ELSE LET smaller == UpTo(S, k - 1)
         IN  smaller \cup { T \cup {x} : T \in smaller, x \in S }

Built(Q, F, T) ==
    Build([ n \in 1..Cardinality(Q) |->
              <<"add_state", SeqOf(Q)[n], SeqOf(Q)[n] \in F>> ]
          \o << <<"mark_initial_state", "q0">>,
                <<"set_initial_stack_symbol", "Z">> >>
          \o [ n \in 1..Cardinality(T) |-> <<"add_transition">> \o SeqOf(T)[n] ])

SmallAutomata(Q, candidates, k) ==
    { Built(Q, F, T) : F \in SUBSET Q, T \in UpTo(candidates, k) }

-----------------------------------------------------------------------------
(* The builder and normalize_states called in any order on one automaton   *)

MaxStates == 2

MaxTransitions == 2

StateIds == {"q0", "q1"}

InputSymbols == {"a"}

StackSymbols == {"Z", "A"}

InitialStackSymbols == {"Z"}

PushStrings == { <<>>, <<"A", "Z">> }

NoCall == << >>

\* C before crear_automata_complemento has returned an automaton
NoAutomaton == [ states |-> {} ]

\* ret before any call has returned
NoResult == [ none |-> TRUE ]

Init ==
    /\ P = NewAP
    /\ C = NoAutomaton
    /\ err = NoError
    /\ call = NoCall
    /\ ret = NoResult

AddState(state, final) ==
    /\ state \in P.states \/ Cardinality(P.states) < MaxStates
    /\ P' = add_state(P, state, final).aut
    /\ err' = add_state(P, state, final).err
    /\ UNCHANGED <<C, call, ret>>

MarkInitialState(state) ==
    /\ P' = mark_initial_state(P, state).aut
    /\ err' = mark_initial_state(P, state).err
    /\ UNCHANGED <<C, call, ret>>

SetInitialStackSymbol(symbol) ==
    /\ P' = set_initial_stack_symbol(P, symbol).aut
    /\ err' = set_initial_stack_symbol(P, symbol).err
    /\ UNCHANGED <<C, call, ret>>

AddTransition(state, new_state, input_symbol, stack_top, stack_push) ==
    LET r == add_transition(P, state, new_state, input_symbol, stack_top, stack_push)
    IN  /\ r.err # NoError \/ Cardinality(DOMAIN P.transitions) < MaxTransitions
        /\ P' = r.aut
        /\ err' = r.err
        /\ UNCHANGED <<C, call, ret>>

NormalizeStates ==
    /\ \E order \in Orders(P.states \ {P.initial_state}) :
          \E listing \in Orders(Renamed(P, order).states) :
              P' = normalize_states(P, order, listing)
    /\ err' = NoError
    /\ UNCHANGED <<C, call, ret>>

Next ==
    \/ \E state \in StateIds, final \in BOOLEAN : AddState(state, final)
    \/ \E state \in StateIds : MarkInitialState(state)
    \/ \E symbol \in InitialStackSymbols : SetInitialStackSymbol(symbol)
    \/ \E state \in StateIds, new_state \in StateIds,
          input_symbol \in InputSymbols \cup {None},
          stack_top \in StackSymbols, stack_push \in PushStrings :
              AddTransition(state, new_state, input_symbol, stack_top, stack_push)
    \/ NormalizeStates

Spec == Init /\ [][Next]_vars

-----------------------------------------------------------------------------
(* Properties of the builder, under Spec *)

\* A lambda transition and a transition on a symbol leave the same state
\* with the same stack top
Coexist(A) ==
    \E k1, k2 \in DOMAIN A.transitions :
        k1[1] = k2[1] /\ k1[3] = k2[3] /\ k1[2] = None /\ k2[2] # None

\* C3: after any sequence of calls of add_state, mark_initial_state,
\* set_initial_stack_symbol, add_transition (that returned or raised) and
\* normalize_states, no state and stack top carry both a lambda transition
\* and a transition on a symbol, every key of the table has one target and
\* push string, and is_deterministic() returns True.
C3_Deterministic ==
    /\ ~ Coexist(P)
    /\ \A k \in DOMAIN P.transitions : Len(P.transitions[k]) = 2
    /\ is_deterministic(P)

\* A table with lambda and symbol transitions, on which a call that would
\* have put a symbol transition beside a lambda transition has just raised
C3_Witness ==
    /\ err = "add_transition: ya existe una transicion lambda"
    /\ \E k1, k2 \in DOMAIN P.transitions : k1[2] = None /\ k2[2] # None

\* The three cases in which a transition may not be added
Conflict(A, state, input_symbol, stack_top) ==
    \/ <<state, input_symbol, stack_top>> \in DOMAIN A.transitions
    \/ input_symbol # None /\ <<state, None, stack_top>> \in DOMAIN A.transitions
    \/ /\ input_symbol = None
       /\ \E k \in DOMAIN A.transitions :
              k[1] = state /\ k[3] = stack_top /\ k[2] # None

ConflictErrors ==
    { "add_transition: ya existe una transicion",
      "add_transition: ya existe una transicion lambda",
      "add_transition: ya existe transicion con simbolo" }

\* C4: between registered states, add_transition raises for a conflict
\* exactly when (i) the key (state, input, stack top) is in the table, or
\* (ii) a symbol transition is added where a lambda transition leaves the
\* same state and stack top, or (iii) a lambda transition is added where a
\* symbol transition leaves the same state and stack top; in every other
\* case it returns, the transition stored.
C4_Conflicts ==
    \A state \in P.states, new_state \in P.states,
       input_symbol \in InputSymbols \cup {None},
       stack_top \in StackSymbols, stack_push \in PushStrings :
        LET r == add_transition(P, state, new_state, input_symbol,
                                stack_top, stack_push)
            key == <<state, input_symbol, stack_top>>
        IN  /\ r.err \in ConflictErrors
                   <=> Conflict(P, state, input_symbol, stack_top)
            /\ ~ Conflict(P, state, input_symbol, stack_top)
                   => /\ r.err = NoError
                      /\ key \in DOMAIN r.aut.transitions
                      /\ r.aut.transitions[key] = <<new_state, stack_push>>

\* A lambda transition has just been refused beside a symbol transition, on
\* a table that holds transitions for two stack tops
C4_Witness ==
    /\ err = "add_transition: ya existe transicion con simbolo"
    /\ \E k1, k2 \in DOMAIN P.transitions : k1[3] # k2[3]

\* C5: a call of the builder that raises (add_state on a registered state,
\* mark_initial_state on an unregistered one, add_transition with an
\* unregistered endpoint or a conflict) leaves the states, the final states,
\* the initial state, the transitions and both alphabets as they were.
C5_FailedCallChangesNothing == [][err' # NoError => P' = P]_vars

\* add_state has just raised on an automaton with a state that is not final
C5_Witness ==
    /\ err = "add_state: ya pertenece"
    /\ P.states \ P.final_states # {}
    /\ DOMAIN P.transitions # {}

\* C6: add_state(state, final) raises if and only if state is registered;
\* otherwise it adds state to the states, adds it to the final states if and
\* only if final is true, and changes nothing else.
C6_AddState ==
    \A state \in StateIds, final \in BOOLEAN :
        LET r == add_state(P, state, final)
        IN  /\ r.err # NoError <=> state \in P.states
            /\ state \notin P.states
                   => /\ r.aut.states = P.states \cup {state}
                      /\ state \in r.aut.final_states <=> final
                      /\ r.aut.final_states \ {state} = P.final_states
                      /\ r.aut.initial_state = P.initial_state
                      /\ r.aut.transitions = P.transitions
                      /\ r.aut.input_alphabet = P.input_alphabet
                      /\ r.aut.stack_alphabet = P.stack_alphabet
                      /\ r.aut.initial_stack_symbol = P.initial_stack_symbol

\* A final and a non-final state have been added, and a third call raised
C6_Witness ==
    /\ P.states = {"q0", "q1"}
    /\ P.final_states = {"q1"}
    /\ err = "add_state: ya pertenece"

\* C7: mark_initial_state raises on a state that is not registered and
\* add_transition raises when its source or its target is not registered;
\* hence the initial state, once set, and both ends of every stored
\* transition are registered states.
C7_RegisteredStates ==
    /\ P.initial_state # None => P.initial_state \in P.states
    /\ \A k \in DOMAIN P.transitions :
           k[1] \in P.states /\ P.transitions[k][1] \in P.states
    /\ \A state \in StateIds \ P.states :
           /\ mark_initial_state(P, state).err # NoError
           /\ \A new_state \in StateIds, input_symbol \in InputSymbols \cup {None},
                 stack_top \in StackSymbols, stack_push \in PushStrings :
                  /\ add_transition(P, state, new_state, input_symbol,
                                    stack_top, stack_push).err # NoError
                  /\ add_transition(P, new_state, state, input_symbol,
                                    stack_top, stack_push).err # NoError

\* add_transition has just raised for its target, on an automaton with an
\* initial state and a transition
C7_Witness ==
    /\ err = "add_transition: new_state no pertenece"
    /\ P.initial_state # None
    /\ DOMAIN P.transitions # {}

-----------------------------------------------------------------------------
(* The execution engine called on an automaton the builder has built       *)

MaxWordLen == 2

MaxStackLen == 2

MaxExecTransitions == 2

\* The words over {a, b} of at most n symbols
WordsUpTo(n) == UNION { [1..k -> {"a", "b"}] : k \in 0..n }

\* The stacks over {Z, A} of at most n symbols
StacksUpTo(n) == UNION { [1..k -> {"Z", "A"}] : k \in 0..n }

AcceptanceModes == {"final_state", "empty_stack"}

\* An acceptance_mode that is neither of the two
OtherMode == "pila_vacia"

ExecCandidates ==
    {"q0", "q1"} \X {"q0", "q1"} \X {None, "a"} \X {"Z"} \X {Str(""), Str("Z")}

ExecAutomata ==
    {TestAnBn, TestAnB}
        \cup SmallAutomata({"q0", "q1"}, ExecCandidates, MaxExecTransitions)

InitExec ==
    /\ P \in ExecAutomata
    /\ C = NoAutomaton
    /\ err = NoError
    /\ call = NoCall
    /\ ret = NoResult

CallAccepts(word, acceptance_mode) ==
    /\ call = NoCall
    /\ call' = <<"accepts", word, acceptance_mode>>
    /\ \E c \in {accepts_loop(P, word, acceptance_mode)} :
           ret' = [ value |-> accepts_return(P, c, acceptance_mode),
                    steps |-> c.steps,
                    at |-> c.at ]
    /\ err' = NoError
    /\ UNCHANGED <<P, C>>

CallStep(state, remaining_input, stack) ==
    /\ call = NoCall
    /\ call' = <<"step", state, remaining_input, stack>>
    /\ ret' = [ value |-> step(P, state, remaining_input, stack) ]
    /\ err' = NoError
    /\ UNCHANGED <<P, C>>

NextExec ==
    \/ \E word \in WordsUpTo(MaxWordLen) \cup {Str("aab"), Str("aabb")},
          acceptance_mode \in AcceptanceModes \cup {OtherMode} :
              CallAccepts(word, acceptance_mode)
    \/ \E state \in P.states, remaining_input \in WordsUpTo(1),
          stack \in StacksUpTo(MaxStackLen) :
              CallStep(state, remaining_input, stack)

SpecExec == InitExec /\ [][NextExec]_vars

-----------------------------------------------------------------------------
(* Properties of the execution engine, under SpecExec *)

\* The run of A on a word: the configurations <<state, remaining input,
\* stack>> in the order step reaches them, run being the part listed so far.
\* The listing ends at the configuration from which step returns None, at
\* the max_steps-th step, or at the first configuration that repeats an
\* earlier one: the run is unique, so from there on it only revisits the
\* configurations already listed.
RECURSIVE Run(_, _, _)
Run(A, run, max_steps) ==
    LET c == run[Len(run)]
        result == step(A, c[1], c[2], c[3])
    IN  IF \/ result = NoTuple
           \/ Len(run) > max_steps
           \/ \E i \in 1..(Len(run) - 1) : run[i] = c
        THEN run
        ELSE Run(A, Append(run, result), max_steps)

RunOn(A, word) ==
    Run(A, << <<A.initial_state, word, <<A.initial_stack_symbol>> >> >>,
        MaxSteps(word))

\* C8: accepts(word, mode) returns True if and only if some configuration of
\* the run from (initial state, word, [initial stack symbol]) reached within
\* max_steps steps, the initial one and the one without a move included, has
\* no input left and, for final_state, a final state, or, for empty_stack,
\* an empty stack; lambda moves after the last symbol are followed.
C8_Accepts ==
    (call # NoCall /\ call[1] = "accepts" /\ call[3] \in AcceptanceModes)
        => LET run == RunOn(P, call[2])
           IN  ret.value
                   = \E i \in 1..Len(run) :
                         /\ run[i][2] = << >>
                         /\ \/ call[3] = "final_state" /\ run[i][1] \in P.final_states
                            \/ call[3] = "empty_stack" /\ run[i][3] = << >>

\* a^n b^n accepts "ab": the final state is reached by the lambda move that
\* follows the last symbol
C8_Witness ==
    /\ P = TestAnBn
    /\ call = <<"accepts", Str("ab"), "final_state">>
    /\ ret.value = TRUE

\* C9: accepts(word, mode) with a mode that is neither final_state nor
\* empty_stack raises instead of returning a boolean.
C9_UnknownModeRaises ==
    (call # NoCall /\ call[1] = "accepts" /\ call[3] \notin AcceptanceModes)
        => err # NoError

\* The push string of the transition step applies in a configuration: the
\* one for the next input symbol if there is one, else the lambda one
AppliedPush(A, state, remaining_input, stack) ==
    LET top == stack[Len(stack)]
    IN  IF /\ remaining_input # << >>
           /\ <<state, remaining_input[1], top>> \in DOMAIN A.transitions
        THEN A.transitions[<<state, remaining_input[1], top>>][2]
        ELSE A.transitions[<<state, None, top>>][2]

\* C10: when step applies a transition with push string s, the new stack is
\* the old one without its top, followed by the characters of s in reverse
\* order: the first character of s is the new top, the second lies beneath
\* it, and with the empty push string the stack is one element shorter.
C10_Push ==
    (call # NoCall /\ call[1] = "step" /\ ret.value # NoTuple)
        => LET stack == call[4]
               new_stack == ret.value[3]
               s == AppliedPush(P, call[2], call[3], stack)
           IN  /\ Len(new_stack) = Len(stack) - 1 + Len(s)
               /\ \A i \in 1..(Len(stack) - 1) : new_stack[i] = stack[i]
               /\ \A j \in 1..Len(s) : new_stack[Len(new_stack) + 1 - j] = s[j]

\* Push "AZ" on top "Z": the new top is "A", with "Z" beneath it
C10_Witness ==
    /\ P = TestAnBn
    /\ call = <<"step", "q0", Str("a"), Str("Z")>>
    /\ ret.value[3] = <<"Z", "A">>

\* The stack once its top is replaced by the push string s, first character
\* of s on top
Pushed(stack, s) ==
    [ i \in 1..(Len(stack) - 1 + Len(s)) |->
        IF i < Len(stack) THEN stack[i] ELSE s[Len(stack) + Len(s) - i] ]

\* C18: step returns None on an empty stack; else, top being the last
\* element of the stack, it applies the transition for (state, input[0],
\* top) if input is left and there is one, consuming input[0]; else the
\* lambda transition for (state, top) if there is one, the input left as it
\* is, also when input is left that no transition matches; else it returns
\* None.
C18_Step ==
    (call # NoCall /\ call[1] = "step")
        => LET state == call[2]
               input == call[3]
               stack == call[4]
               T == P.transitions
           IN  IF stack = << >>
               THEN ret.value = NoTuple
               ELSE IF /\ input # << >>
                       /\ <<state, input[1], stack[Len(stack)]>> \in DOMAIN T
               THEN ret.value
                        = << T[<<state, input[1], stack[Len(stack)]>>][1],
                             SubSeq(input, 2, Len(input)),
                             Pushed(stack, T[<<state, input[1], stack[Len(stack)]>>][2]) >>
               ELSE IF <<state, None, stack[Len(stack)]>> \in DOMAIN T
               THEN ret.value
                        = << T[<<state, None, stack[Len(stack)]>>][1],
                             input,
                             Pushed(stack, T[<<state, None, stack[Len(stack)]>>][2]) >>
               ELSE ret.value = NoTuple

\* Input is left that no transition matches, and the lambda transition is
\* applied
C18_Witness ==
    /\ call # NoCall
    /\ call[1] = "step"
    /\ call[3] = Str("b")
    /\ Len(call[4]) = 2
    /\ ret.value # NoTuple
    /\ ret.value[2] = Str("b")
    /\ ret.value[1] # call[2]

\* C11: accepts terminates on every automaton and word, lambda cycles
\* included: its loop is left after at most len(word) * 100 + 1000 passes,
\* it returns a boolean and raises nothing; a run that stops with input
\* left (no transition, an empty stack, a symbol outside the input alphabet)
\* is rejected, and so is a run that goes on beyond the bound without an
\* accepting configuration.
C11_AcceptsTerminates ==
    (call # NoCall /\ call[1] = "accepts")
        => LET run == RunOn(P, call[2])
               last == run[Len(run)]
               stops == step(P, last[1], last[2], last[3]) = NoTuple
           IN  /\ ret.at \in {"return", "break"}
               /\ ret.steps <= Len(call[2]) * StepsPerSymbol + BaseSteps
               /\ ret.value \in BOOLEAN
               /\ err = NoError
               /\ (stops /\ last[2] # << >>) => ret.value = FALSE
               /\ (/\ ~ stops
                   /\ \A i \in 1..Len(run) :
                          ~ /\ run[i][2] = << >>
                            /\ \/ call[3] = "final_state"
                                  /\ run[i][1] \in P.final_states
                               \/ call[3] = "empty_stack" /\ run[i][3] = << >>)
                      => ret.value = FALSE

\* A lambda cycle met on a word with a symbol outside the input alphabet:
\* the loop is left by its bound, and the word is rejected
C11_Witness ==
    /\ call # NoCall
    /\ call[1] = "accepts"
    /\ call[2] = Str("ab")
    /\ "b" \notin P.input_alphabet
    /\ ret.steps = 2 * StepsPerSymbol + BaseSteps
    /\ ret.at = "break"
    /\ ret.value = FALSE

-----------------------------------------------------------------------------
(* The complement of an automaton the builder has built, and the loop of   *)
(* test_complemento.py that runs both automata on each word                *)

MaxLambdaTransitions == 2

MaxTotalTransitions == 4

TotalCandidates ==
    {"q0", "q1"} \X {"q0", "q1"} \X {"a", "b"} \X {"Z"} \X {Str("Z")}

ComplAutomata ==
    {TestAnB, TestAaBb}
        \cup SmallAutomata({"q0", "q1"}, ExecCandidates, MaxLambdaTransitions)
        \cup SmallAutomata({"q0", "q1"}, TotalCandidates, MaxTotalTransitions)

ComplWords == WordsUpTo(MaxWordLen) \cup TestWords

InitCompl ==
    /\ P \in ComplAutomata
    /\ C = NoAutomaton
    /\ err = NoError
    /\ call = NoCall
    /\ ret = NoResult

CrearAutomataComplemento ==
    /\ C = NoAutomaton
    /\ err = NoError
    /\ C' = IF crear_automata_complemento(P).err = NoError
            THEN crear_automata_complemento(P).aut
            ELSE NoAutomaton
    /\ err' = crear_automata_complemento(P).err
    /\ UNCHANGED <<P, call, ret>>

\* result_P = P.accepts(word); result_C = C.accepts(word), for each word
RunTestCases ==
    /\ C # NoAutomaton
    /\ call = NoCall
    /\ call' = <<"test_cases">>
    /\ ret' = [ value |-> [ word \in ComplWords |->
                              <<accepts(P, word, "final_state"),
                                accepts(C, word, "final_state")>> ] ]
    /\ UNCHANGED <<P, C, err>>

NextCompl ==
    \/ CrearAutomataComplemento
    \/ RunTestCases

SpecCompl == InitCompl /\ [][NextCompl]_vars

-----------------------------------------------------------------------------
(* Properties of the complement, under SpecCompl *)

\* The words tried that are words over the input alphabet of A
WordsOver(A) ==
    { word \in ComplWords : \A i \in 1..Len(word) : word[i] \in A.input_alphabet }

\* A configuration with a move whatever the input left: its stack is not
\* empty, and for its state and stack top there is a lambda transition or a
\* transition on every symbol of the input alphabet
HasMove(A, c) ==
    /\ c[3] # << >>
    /\ \/ <<c[1], None, c[3][Len(c[3])]>> \in DOMAIN A.transitions
       \/ /\ A.input_alphabet # {}
          /\ \A symbol \in A.input_alphabet :
                 <<c[1], symbol, c[3][Len(c[3])]>> \in DOMAIN A.transitions

\* Every configuration A reaches on the words tried has a move
Continuous(A) ==
    \A word \in WordsOver(A) :
        \A i \in 1..Len(RunOn(A, word)) : HasMove(A, RunOn(A, word)[i])

\* The run of A on word ends: it reaches a configuration from which step
\* returns None
Ends(A, word) ==
    LET run == RunOn(A, word)
        c == run[Len(run)]
    IN  step(A, c[1], c[2], c[3]) = NoTuple

\* C1 as stated: for every continuous P (every reachable configuration has
\* an applicable transition for its stack top, whether or not input is left)
\* and every word over the input alphabet, C.accepts(word) by final state
\* equals not P.accepts(word).
C1_ComplementOfContinuous ==
    (call = <<"test_cases">> /\ Continuous(P))
        => \A word \in WordsOver(P) : ret.value[word][2] = ~ ret.value[word][1]

\* C1 with the precondition of the construction: for every continuous P
\* whose runs end (no configuration reached starts an endless sequence of
\* lambda moves, so P reads every word to its end and stops) and every word
\* over the input alphabet on which the run of C ends too,
\* C.accepts(word) by final state equals not P.accepts(word).
C1_ComplementOfContinuing ==
    (/\ call = <<"test_cases">>
     /\ Continuous(P)
     /\ \A word \in WordsOver(P) : Ends(P, word))
        => \A word \in WordsOver(P) :
               Ends(C, word) => ret.value[word][2] = ~ ret.value[word][1]

\* A continuous P with a lambda transition whose runs end, that accepts a
\* word its complement rejects and rejects one its complement accepts
C1_Witness ==
    /\ call = <<"test_cases">>
    /\ Continuous(P)
    /\ \A word \in WordsOver(P) : Ends(P, word) /\ Ends(C, word)
    /\ \E k \in DOMAIN P.transitions : k[2] = None
    /\ \E w1, w2 \in WordsOver(P) :
           /\ ret.value[w1] = <<TRUE, FALSE>>
           /\ ret.value[w2] = <<FALSE, TRUE>>

\* C16: the states of C are exactly (q, 0), (q, 1), (q, 2) for the states q
\* of P, its final states exactly the (q, 2), and its initial state is
\* (q0, 1) if the initial state q0 of P is final in P and (q0, 0) otherwise.
C16_ComplementStates ==
    C # NoAutomaton
        => /\ C.states = P.states \X {0, 1, 2}
           /\ C.final_states = P.states \X {2}
           /\ P.initial_state \in P.final_states
                  => C.initial_state = <<P.initial_state, 1>>
           /\ P.initial_state \notin P.final_states
                  => C.initial_state = <<P.initial_state, 0>>

\* The complement of an automaton whose initial state is final, and which
\* has a state that is not
C16_Witness ==
    /\ C # NoAutomaton
    /\ P.initial_state \in P.final_states
    /\ P.states \ P.final_states # {}
    /\ C.initial_state = <<"q0", 1>>

\* The transitions of A, each as the pair of its key and its value
Entries(A) == { <<k, A.transitions[k]>> : k \in DOMAIN A.transitions }

\* C21: for every transition of P that reads a symbol a, from q with stack
\* top X to p with push s, C has exactly the transitions
\* ((q,1), a, X) -> ((p,i), s) and ((q,2), a, X) -> ((p,i), s), i being 1
\* if p is final in P and 0 otherwise; C has no other transition that
\* reads a symbol, and none from a state of index 0.
C21_ReglaI ==
    C # NoAutomaton
        => /\ { e \in Entries(C) : e[1][2] # None }
                = { << <<<<e[1][1], m>>, e[1][2], e[1][3]>>,
                       << <<e[2][1], IF e[2][1] \in P.final_states THEN 1 ELSE 0>>,
                          e[2][2]>> >> :
                      e \in { x \in Entries(P) : x[1][2] # None }, m \in {1, 2} }
           /\ \A k \in DOMAIN C.transitions : k[1][2] = 0 => k[2] = None

\* The complement of an automaton with a transition on a symbol into a
\* final state and one into a state that is not final
C21_Witness ==
    /\ C # NoAutomaton
    /\ \E e1, e2 \in Entries(P) :
          /\ e1[1][2] # None /\ e1[2][1] \in P.final_states
          /\ e2[1][2] # None /\ e2[2][1] \notin P.final_states
          /\ C.transitions[<<<<e1[1][1], 2>>, e1[1][2], e1[1][3]>>][1] = <<e1[2][1], 1>>
          /\ C.transitions[<<<<e2[1][1], 1>>, e2[1][2], e2[1][3]>>][1] = <<e2[2][1], 0>>

\* C22: for every lambda transition of P from q with stack top X to p with
\* push s, C has the lambda transitions ((q,1), X) -> ((p,1), s) and
\* ((q,0), X) -> ((p,i), s), i being 1 if p is final in P and 0 otherwise;
\* no lambda transition of C goes from index 1 to index 0, and the states of
\* index 2 have no lambda transitions.
C22_ReglaII ==
    C # NoAutomaton
        => /\ \A e \in { x \in Entries(P) : x[1][2] = None } :
                /\ <<<<e[1][1], 1>>, None, e[1][3]>> \in DOMAIN C.transitions
                /\ C.transitions[<<<<e[1][1], 1>>, None, e[1][3]>>]
                       = << <<e[2][1], 1>>, e[2][2] >>
                /\ <<<<e[1][1], 0>>, None, e[1][3]>> \in DOMAIN C.transitions
                /\ C.transitions[<<<<e[1][1], 0>>, None, e[1][3]>>]
                       = << <<e[2][1], IF e[2][1] \in P.final_states THEN 1 ELSE 0>>,
                            e[2][2] >>
           /\ \A e \in Entries(C) :
                e[1][2] = None
                    => /\ e[1][1][2] # 2
                       /\ e[1][1][2] = 1 => e[2][1][2] = 1

\* The complement of an automaton with a lambda transition into a state
\* that is not final: from index 1 it keeps index 1, from index 0 index 0
C22_Witness ==
    /\ C # NoAutomaton
    /\ \E e \in Entries(P) :
          /\ e[1][2] = None
          /\ e[2][1] \notin P.final_states
          /\ C.transitions[<<<<e[1][1], 1>>, None, e[1][3]>>][1] = <<e[2][1], 1>>
          /\ C.transitions[<<<<e[1][1], 0>>, None, e[1][3]>>][1] = <<e[2][1], 0>>

\* C23: for every state q of P and every symbol X of the stack alphabet of
\* P, C has the lambda transition ((q,0), X) -> ((q,2), X) if and only if P
\* has no lambda transition for (q, X); every transition of C into a state
\* of index 2 is one of these: none leaves a state of index 1, none changes
\* the state of P or the stack.
C23_ReglaIII ==
    C # NoAutomaton
        => /\ \A q \in P.states, X \in P.stack_alphabet :
                (/\ <<<<q, 0>>, None, X>> \in DOMAIN C.transitions
                 /\ C.transitions[<<<<q, 0>>, None, X>>] = << <<q, 2>>, <<X>> >>)
                    <=> <<q, None, X>> \notin DOMAIN P.transitions
           /\ \A e \in Entries(C) :
                e[2][1][2] = 2
                    => /\ e[1][1][2] = 0
                       /\ e[1][2] = None
                       /\ e[2][1][1] = e[1][1][1]
                       /\ e[2][2] = <<e[1][3]>>
                       /\ e[1][1][1] \in P.states
                       /\ e[1][3] \in P.stack_alphabet

\* The complement of an automaton with a lambda transition for (q0, Z) and
\* none for (q1, Z): C jumps to index 2 from (q1, 0) and not from (q0, 0)
C23_Witness ==
    /\ C # NoAutomaton
    /\ <<"q0", None, "Z">> \in DOMAIN P.transitions
    /\ <<"q1", None, "Z">> \notin DOMAIN P.transitions
    /\ C.transitions[<<<<"q1", 0>>, None, "Z">>] = << <<"q1", 2>>, <<"Z">> >>
    /\ C.transitions[<<<<"q0", 0>>, None, "Z">>][1][2] # 2

\* C24 as stated: once a run of C enters a state (q, 2), every later state
\* of that run is a state of index 2 again.
C24_Index2Absorbing ==
    call = <<"test_cases">>
        => \A word \in ComplWords :
             \A run \in {RunOn(C, word)} :
               \A i, j \in 1..Len(run) :
                 (i < j /\ run[i][1][2] = 2) => run[j][1][2] = 2

\* C24 with the moves of regla (i): a run of C leaves a state (q, 2) only by
\* reading a symbol, to a state of index 0 or 1; with no input left the run
\* stops in (q, 2), which is final, and C accepts the word.
C24_Index2UntilSymbol ==
    call = <<"test_cases">>
        => \A word \in ComplWords :
             \A run \in {RunOn(C, word)} :
               \A i \in 1..Len(run) :
                 run[i][1][2] = 2
                    => /\ run[i][1] \in C.final_states
                       /\ i < Len(run)
                            => /\ Len(run[i + 1][2]) = Len(run[i][2]) - 1
                               /\ run[i + 1][1][2] \in {0, 1}
                       /\ run[i][2] = << >>
                            => /\ step(C, run[i][1], run[i][2], run[i][3]) = NoTuple
                               /\ ret.value[word][2] = TRUE

\* The complement of {a^n b} on "ab": from (q0, 2) it reads a and goes to
\* (q1, 0); on "" it stops in (q0, 2) and accepts
C24_Witness ==
    /\ call = <<"test_cases">>
    /\ P = TestAnB
    /\ \E i \in 1..(Len(RunOn(C, Str("ab"))) - 1) :
          /\ RunOn(C, Str("ab"))[i][1] = <<"q0", 2>>
          /\ RunOn(C, Str("ab"))[i + 1][1] = <<"q1", 0>>
    /\ RunOn(C, Str(""))[Len(RunOn(C, Str("")))][1] = <<"q0", 2>>
    /\ ret.value[Str("")][2] = TRUE

\* A configuration of C as the configuration of P it stands for
Projected(c) == <<c[1][1], c[2], c[3]>>

\* The move from the i-th configuration of a run of C is one of regla (iii)
MoveOfReglaIII(run, i) == run[i][1][2] = 0 /\ run[i + 1][1][2] = 2

\* Up to the j-th configuration of the run of C, P has been in a final state
\* since the last symbol was read, or since the start
FinalSinceLastSymbol(run, j) ==
    \E i \in 1..j :
        /\ run[i][1][1] \in P.final_states
        /\ \A k \in i..(j - 1) : Len(run[k + 1][2]) = Len(run[k][2])

\* C25: P and C run on the same word.  With the moves of regla (iii) erased
\* and every state (q, m) of C read as q, the run of C is a prefix of the
\* run of P: it starts where P starts and each move is the move step makes
\* in P, with the same input left and the same stack.  In every
\* configuration of the run of C the index is 1 if and only if P has been in
\* a final state since the last symbol was read or since the start, and it
\* is 0 or 2 otherwise.
C25_SideBySide ==
    call = <<"test_cases">>
        => \A word \in ComplWords :
             \A run \in {RunOn(C, word)} :
               /\ Projected(run[1])
                      = <<P.initial_state, word, <<P.initial_stack_symbol>> >>
               /\ \A i \in 1..(Len(run) - 1) :
                     IF MoveOfReglaIII(run, i)
                     THEN Projected(run[i + 1]) = Projected(run[i])
                     ELSE step(P, run[i][1][1], run[i][2], run[i][3])
                              = Projected(run[i + 1])
               /\ \A j \in 1..Len(run) :
                     /\ run[j][1][2] \in {0, 1, 2}
                     /\ run[j][1][2] = 1 <=> FinalSinceLastSymbol(run, j)

\* A run of C that keeps index 1 over a lambda move from a final state of P
\* into a state that is not final, and then reads a symbol
C25_Witness ==
    /\ call = <<"test_cases">>
    /\ \E word \in ComplWords :
         \E run \in {RunOn(C, word)} :
           \E i \in 1..(Len(run) - 2) :
              /\ run[i][1][2] = 1
              /\ run[i][1][1] \in P.final_states
              /\ run[i + 1][1][2] = 1
              /\ run[i + 1][1][1] \notin P.final_states
              /\ run[i + 1][2] = run[i][2]
              /\ Len(run[i + 2][2]) < Len(run[i][2])

\* C26: for every P built through the builder with an initial state,
\* continuous or not, crear_automata_complemento completes: no add_state,
\* mark_initial_state or add_transition inside it raises, and
\* C.is_deterministic() is true.
C26_ComplementBuilds ==
    /\ err = NoError
    /\ crear_automata_complemento(P).err = NoError
    /\ C # NoAutomaton
          => /\ C = crear_automata_complemento(P).aut
             /\ is_deterministic(C)

\* The complement of an automaton with a lambda transition and a transition
\* on a symbol, which stops on "a" with input left
C26_Witness ==
    /\ C # NoAutomaton
    /\ P.initial_state = "q0"
    /\ \E k1, k2 \in DOMAIN P.transitions : k1[2] = None /\ k2[2] # None
    /\ ~ HasMove(P, RunOn(P, Str("a"))[Len(RunOn(P, Str("a")))])
    /\ is_deterministic(C)
    /\ Cardinality(DOMAIN C.transitions) >= 5

\* No lambda transitions, and in every configuration A reaches on the words
\* tried the stack is not empty and there is a transition on "a" and on "b"
Total(A) ==
    /\ \A k \in DOMAIN A.transitions : k[2] # None
    /\ \A word \in ComplWords :
           \A i \in 1..Len(RunOn(A, word)) :
               LET c == RunOn(A, word)[i]
               IN  /\ c[3] # << >>
                   /\ \A symbol \in {"a", "b"} :
                          <<c[1], symbol, c[3][Len(c[3])]>> \in DOMAIN A.transitions

\* C2: for P without lambda transitions, made total with a trap state (a
\* transition for every state, symbol and stack top reached, none emptying
\* the stack), C.accepts(word) equals not P.accepts(word) for every word
\* over {a, b}; the automaton of {a^n b} accepts "ab", which its complement
\* rejects, and rejects "" and "aabb", which its complement accepts; the
\* automaton of {aa, bb} accepts "aa" and rejects "ab".
C2_ComplementOfTotal ==
    (call = <<"test_cases">> /\ Total(P))
        => /\ \A word \in ComplWords : ret.value[word][2] = ~ ret.value[word][1]
           /\ P = TestAnB
                  => /\ ret.value[Str("ab")] = <<TRUE, FALSE>>
                     /\ ret.value[Str("")] = <<FALSE, TRUE>>
                     /\ ret.value[Str("aabb")] = <<FALSE, TRUE>>
           /\ P = TestAaBb
                  => /\ ret.value[Str("aa")] = <<TRUE, FALSE>>
                     /\ ret.value[Str("ab")] = <<FALSE, TRUE>>

\* The automaton of {a^n b}, total, and its complement have run on the words
C2_Witness ==
    /\ call = <<"test_cases">>
    /\ P = TestAnB
    /\ Total(P)
    /\ ret.value[Str("aab")] = <<TRUE, FALSE>>

-----------------------------------------------------------------------------
(* The source automaton and its complement as two objects: builder calls   *)
(* and normalize_states on either one, after crear_automata_complemento    *)

MaxLaterCalls == 2

\* The alphabets with both attributes naming one set object
SharedAlphabets == {"input_alphabet", "stack_alphabet"}

\* The attributes of C that name the very object the same attribute of P
\* names: none, C = APDC() makes its own containers and the alphabets are
\* assigned as self.input_alphabet.copy() and self.stack_alphabet.copy()
SharedAttributes == {}

\* The automaton B once the automaton A that shares attributes with it has
\* been changed in place
Sharing(A, B) ==
    [ B EXCEPT
        !.input_alphabet = IF "input_alphabet" \in SharedAttributes
                           THEN A.input_alphabet ELSE @,
        !.stack_alphabet = IF "stack_alphabet" \in SharedAttributes
                           THEN A.stack_alphabet ELSE @ ]

\* An automaton on which set_initial_stack_symbol is never called
BuiltWithoutStackSymbol(T) ==
    Build(<< <<"add_state", "q0", FALSE>>, <<"add_state", "q1", TRUE>>,
             <<"mark_initial_state", "q0">> >>
          \o [ n \in 1..Cardinality(T) |-> <<"add_transition">> \o SeqOf(T)[n] ])

FrameAutomata ==
    {TestAnB, TestAnBn}
        \cup SmallAutomata({"q0", "q1"}, ExecCandidates, 1)
        \cup { BuiltWithoutStackSymbol(T) :
                 T \in UpTo({"q0", "q1"} \X {"q0", "q1"} \X {None, "a"}
                                \X {"Z", EMPTY} \X {Str("Z")}, 1) }

\* A state of C written as Python's repr writes the tuple: TLC holds no set
\* of strings and tuples, which the renaming of tuples to q0, q1, ... makes
Label(state) == "(" \o state[1] \o ", " \o ToString(state[2]) \o ")"

Labelled(A) ==
    [ A EXCEPT
        !.states = { Label(q) : q \in @ },
        !.initial_state = IF @ = None THEN None ELSE Label(@),
        !.final_states = { Label(q) : q \in @ },
        !.transitions =
            [ k \in { <<Label(j[1]), j[2], j[3]>> : j \in DOMAIN @ } |->
                LET j == CHOOSE j \in DOMAIN @ : <<Label(j[1]), j[2], j[3]>> = k
                IN  <<Label(@[j][1]), @[j][2]>> ] ]

\* A call on an automaton of string states, one iteration order taken
LaterCalls(A) ==
    { <<"add_state", "q9", TRUE>>, <<"add_state", "q0", TRUE>>,
      <<"set_initial_stack_symbol", "Y">>,
      <<"add_transition", "q0", "q0", "c", "Y", Str("XY")>>,
      <<"add_transition", "q0", "q0", None, "Z", Str("")>>,
      <<"normalize_states">> }
        \cup { <<"mark_initial_state", q>> : q \in A.states \cup {"q9"} }

\* The same calls on C, whose states are tuples
LaterCallsOnC(A) ==
    { <<"add_state", <<"q9", 0>>, TRUE>>, <<"add_state", <<"q0", 0>>, TRUE>>,
      <<"set_initial_stack_symbol", "Y">>,
      <<"add_transition", <<"q0", 0>>, <<"q0", 2>>, "c", "Y", Str("XY")>>,
      <<"add_transition", <<"q0", 1>>, <<"q0", 1>>, None, "Z", Str("")>>,
      <<"normalize_states">> }
        \cup { <<"mark_initial_state", q>> : q \in A.states \cup {<<"q9", 0>>} }

\* normalize_states with one iteration order of each set
normalize_states_in_order(A) ==
    LET order == SeqOf(A.states \ {A.initial_state})
    IN  normalize_states(A, order, SeqOf(Renamed(A, order).states))

Later(A, c) ==
    IF c[1] = "normalize_states"
    THEN Returned(normalize_states_in_order(A))
    ELSE Apply(A, c)

InitFrame ==
    /\ P \in FrameAutomata
    /\ C = NoAutomaton
    /\ err = NoError
    /\ call = NoCall
    /\ ret = NoResult

\* C = P.crear_automata_complemento()
CrearComplemento ==
    /\ C = NoAutomaton
    /\ crear_automata_complemento(P).err = NoError
    /\ C' = crear_automata_complemento(P).aut
    /\ P' = Sharing(crear_automata_complemento(P).aut, P)
    /\ err' = NoError
    /\ UNCHANGED <<call, ret>>

\* normalize_states has been called on C
CNormalized == \E n \in 1..Len(call) : call[n] = <<"C", "normalize_states">>

\* A later call on C; normalize_states leaves C with states q0, q1, ... and
\* is the last call made on it
CallOnC(c) ==
    /\ C # NoAutomaton
    /\ Len(call) < MaxLaterCalls
    /\ ~ CNormalized
    /\ \E r \in { Later(IF c[1] = "normalize_states" THEN Labelled(C) ELSE C, c) } :
          /\ C' = r.aut
          /\ P' = Sharing(r.aut, P)
          /\ err' = r.err
    /\ call' = Append(call, <<"C", c[1]>>)
    /\ UNCHANGED ret

\* A later call on P
CallOnP(c) ==
    /\ C # NoAutomaton
    /\ Len(call) < MaxLaterCalls
    /\ \E r \in { Later(P, c) } :
          /\ P' = r.aut
          /\ C' = Sharing(r.aut, C)
          /\ err' = r.err
    /\ call' = Append(call, <<"P", c[1]>>)
    /\ UNCHANGED ret

NextFrame ==
    \/ CrearComplemento
    \/ \E c \in (IF CNormalized THEN {} ELSE LaterCallsOnC(C)) : CallOnC(c)
    \/ \E c \in LaterCalls(P) : CallOnP(c)

SpecFrame == InitFrame /\ [][NextFrame]_vars

-----------------------------------------------------------------------------
(* Properties of the two objects, under SpecFrame *)

C17_ComplementAlphabets ==
    (C # NoAutomaton /\ call = NoCall)
        => /\ C.input_alphabet = P.input_alphabet
           /\ C.stack_alphabet = P.stack_alphabet
           /\ C.initial_stack_symbol = P.initial_stack_symbol

-----------------------------------------------------------------------------
(* normalize_states called, any number of times, on an automaton the       *)
(* builder has built                                                       *)

MaxNormStates == 3

NormNames == {"q0", "q1", "q2", "temp:q0"}

\* The automaton with the states Q, the initial state q0 (None:
\* mark_initial_state is not called), the final states F and, from every
\* state q, the transition on "a" with stack top "Z" to target[q] that
\* pushes stack_push
NormBuilt(Q, q0, F, target, stack_push) ==
    Build([ n \in 1..Cardinality(Q) |->
              <<"add_state", SeqOf(Q)[n], SeqOf(Q)[n] \in F>> ]
          \o (IF q0 # None THEN << <<"mark_initial_state", q0>> >> ELSE << >>)
          \o << <<"set_initial_stack_symbol", "Z">> >>
          \o [ n \in 1..Cardinality(Q) |->
                 <<"add_transition", SeqOf(Q)[n], target[SeqOf(Q)[n]],
                   "a", "Z", stack_push>> ])

NormAutomata ==
    UNION { UNION { { NormBuilt(Q, q0, F, target, stack_push) :
                        F \in { {} } \cup { {q} : q \in Q },
                        target \in [Q -> Q],
                        stack_push \in {Str("Z"), Str("")} } :
                    q0 \in Q \cup {None} } :
            Q \in { S \in SUBSET NormNames :
                      Cardinality(S) >= 1 /\ Cardinality(S) <= MaxNormStates } }

InitNorm ==
    /\ P \in NormAutomata
    /\ C = NoAutomaton
    /\ err = NoError
    /\ call = NoCall
    /\ ret = NoResult

\* normalize_states on P; call keeps the automaton as it was before
CallNormalizeStates ==
    /\ \E order \in Orders(P.states \ {P.initial_state}) :
          \E listing \in Orders(Renamed(P, order).states) :
              P' = normalize_states(P, order, listing)
    /\ call' = <<"normalize_states", P>>
    /\ ret' = NoResult
    /\ err' = NoError
    /\ UNCHANGED C

NextNorm == CallNormalizeStates

SpecNorm == InitNorm /\ [][NextNorm]_vars

-----------------------------------------------------------------------------
(* Properties of normalize_states, under SpecNorm *)

\* normalize_states has been called
Normalized == call # NoCall /\ call[1] = "normalize_states"

\* The labels q0, q1, ... in order
Labels == <<"q0", "q1", "q2", "q3", "q4", "q5">>

\* C12: after normalize_states on an automaton with n states and an initial
\* state, the states are exactly q0 .. q(n-1), the initial state is q0, and
\* there are as many states, final states and transitions as before: no
\* two states received one label.
C12_NormalizedLabels ==
    (Normalized /\ call[2].initial_state # None)
        => LET n == Cardinality(call[2].states)
           IN  /\ P.states = { Labels[i] : i \in 1..n }
               /\ P.initial_state = "q0"
               /\ Cardinality(P.states) = n
               /\ Cardinality(P.final_states) = Cardinality(call[2].final_states)
               /\ Cardinality(DOMAIN P.transitions)
                      = Cardinality(DOMAIN call[2].transitions)

\* Three states, none called q0, one of them initial and final, normalized
C12_Witness ==
    /\ Normalized
    /\ call[2].states = {"q1", "q2", "temp:q0"}
    /\ call[2].initial_state = "q2"
    /\ call[2].final_states = {"q2"}
    /\ P.states = {"q0", "q1", "q2"}
    /\ P.final_states = {"q0"}

\* The one-to-one maps from the set S onto the set T
Bijections(S, T) ==
    { f \in [S -> T] : { f[x] : x \in S } = T /\ Cardinality(S) = Cardinality(T) }

\* C13: normalize_states renames by a bijection f from the old labels to the
\* new ones: the states, the initial state, the final states and the
\* transitions are the images under f of the old ones, input symbols, stack
\* tops and push strings untouched; so accepts returns the same for every
\* word and both modes before and after.
C13_Bijection ==
    Normalized
        => LET old == call[2]
           IN  /\ \E f \in Bijections(old.states, P.states) :
                      /\ P.initial_state = IF old.initial_state = None THEN None
                                           ELSE f[old.initial_state]
                      /\ P.final_states = { f[q] : q \in old.final_states }
                      /\ DOMAIN P.transitions
                             = { <<f[k[1]], k[2], k[3]>> : k \in DOMAIN old.transitions }
                      /\ \A k \in DOMAIN old.transitions :
                             P.transitions[<<f[k[1]], k[2], k[3]>>]
                                 = <<f[old.transitions[k][1]], old.transitions[k][2]>>
               /\ P.input_alphabet = old.input_alphabet
               /\ P.stack_alphabet = old.stack_alphabet
               /\ P.initial_stack_symbol = old.initial_stack_symbol
               /\ \A word \in WordsUpTo(MaxWordLen), mode \in AcceptanceModes :
                      accepts(P, word, mode) = accepts(old, word, mode)

\* A renaming that moves the initial and the final state, on an automaton
\* that accepts "aa" by final state
C13_Witness ==
    /\ Normalized
    /\ call[2].states = {"q0", "q1", "q2"}
    /\ call[2].initial_state = "q2"
    /\ P.states = {"q0", "q1", "q2"}
    /\ call[2].final_states = {"q1"}
    /\ P.final_states # {"q1"}
    /\ accepts(P, Str("aa"), "final_state")
    /\ ~ accepts(P, Str("a"), "final_state")

\* C14: normalize_states terminates on every finite automaton, also when the
\* renaming is the identity or holds a cycle among the labels in use (q0 and
\* q1 with q1 initial): the loop that orders the renames takes one pass for
\* each state, and when the call returns no label starts with "temp:".
C14_Terminates ==
    Normalized
        => /\ \A order \in Orders(call[2].states \ {call[2].initial_state}) :
                  Len(OrderedNewNames(NewNames(call[2], order)))
                      = Cardinality(call[2].states)
           /\ \A state \in P.states :
                  ~ (Len(state) >= 5 /\ SubSeq(state, 1, 5) = "temp:")
           /\ (call[2].states = {"q0", "q1"} /\ call[2].initial_state = "q0")
                  => P = call[2]

\* The states q0 and q1 with q1 initial: the two have changed places
C14_Witness ==
    /\ Normalized
    /\ call[2].states = {"q0", "q1"}
    /\ call[2].initial_state = "q1"
    /\ call[2].final_states = {"q1"}
    /\ P.states = {"q0", "q1"}
    /\ P.initial_state = "q0"
    /\ P.final_states = {"q0"}

\* C19: inside normalize_states, its last loop included, every call
\* _rename_state(old, new) with old # new is made when new is the label of
\* no state: no rename merges two states or overwrites a key of the table
\* (the numbers of states and of transitions stay the same).
C19_RenamesToFreeLabels ==
    Normalized
        => \A order \in Orders(call[2].states \ {call[2].initial_state}) :
             \A listing \in Orders(Renamed(call[2], order).states) :
               \A n \in 1..Len(AllRenameCalls(call[2], order, listing)) :
                 LET c == AllRenameCalls(call[2], order, listing)[n]
                     after == rename_state(c[1], c[2], c[3])
                 IN  c[2] # c[3]
                        => /\ c[3] \notin c[1].states
                           /\ Cardinality(after.states) = Cardinality(c[1].states)
                           /\ Cardinality(DOMAIN after.transitions)
                                  = Cardinality(DOMAIN c[1].transitions)

\* Three states whose labels go round in a cycle: one rename went through
\* a temporary name
C19_Witness ==
    /\ Normalized
    /\ call[2].states = {"q0", "q1", "q2"}
    /\ call[2].initial_state = "q2"
    /\ \E order \in Orders({"q0", "q1"}) :
         \E listing \in Orders(Renamed(call[2], order).states) :
             /\ Len(AllRenameCalls(call[2], order, listing)) = 4
             /\ AllRenameCalls(call[2], order, listing)[1][3] = "temp:q0"
             /\ normalize_states(call[2], order, listing) = P

\* The accepting states are states, the initial state is unset or a state,
\* and both ends of every stored transition are states
Consistent(A) ==
    /\ A.final_states \subseteq A.states
    /\ A.initial_state = None \/ A.initial_state \in A.states
    /\ \A key \in DOMAIN A.transitions :
          /\ key[1] \in A.states
          /\ A.transitions[key][1] \in A.states

\* C20: after any sequence of builder operations and calls of
\* normalize_states, and after each single rename inside normalize_states,
\* the accepting set is a subset of the state set, the initial state is
\* unset or a member of the state set, and the source and the destination
\* of every stored transition are members of the state set.
C20_Consistent ==
    /\ Consistent(P)
    /\ \A order \in Orders(P.states \ {P.initial_state}) :
         \A listing \in Orders(Renamed(P, order).states) :
           \A n \in 1..Len(AllRenameCalls(P, order, listing)) :
             LET c == AllRenameCalls(P, order, listing)[n]
             IN  Consistent(rename_state(c[1], c[2], c[3]))

\* An automaton with an accepting state, an initial state and a transition,
\* on which normalize_states swaps q0 and q1 in three renames
C20_Witness ==
    /\ P.states = {"q0", "q1"}
    /\ P.initial_state = "q1"
    /\ P.final_states = {"q1"}
    /\ \E key \in DOMAIN P.transitions :
          key[1] = "q1" /\ P.transitions[key][1] = "q0"
    /\ \E order \in Orders({"q0"}) :
         \E listing \in Orders(Renamed(P, order).states) :
            /\ Len(AllRenameCalls(P, order, listing)) = 3
            /\ Consistent(normalize_states(P, order, listing))
            /\ normalize_states(P, order, listing).initial_state = "q0"
            /\ normalize_states(P, order, listing).final_states = {"q0"}

\* The input alphabet holds the symbol of every transition that reads one,
\* the stack alphabet the stack top and every symbol pushed
Covered(A) ==
    \A key \in DOMAIN A.transitions :
        /\ key[2] # None => key[2] \in A.input_alphabet
        /\ key[3] \in A.stack_alphabet
        /\ Chars(A.transitions[key][2]) \subseteq A.stack_alphabet

\* A step that is not one of normalize_states takes nothing out of the
\* alphabets, the state set and the transition table
Grown ==
    ~ NormalizeStates
        => /\ P.input_alphabet \subseteq P'.input_alphabet
           /\ P.stack_alphabet \subseteq P'.stack_alphabet
           /\ P.states \subseteq P'.states
           /\ \A key \in DOMAIN P.transitions :
                 key \in DOMAIN P'.transitions /\ P'.transitions[key] = P.transitions[key]

\* C27 as stated: after any sequence of builder operations the input
\* alphabet contains the input symbol of every stored transition that reads
\* one, and the stack alphabet contains the stack top and every symbol
\* pushed of every stored transition and the current initial stack symbol;
\* no builder operation takes an element out of the alphabets, the state
\* set or the transition table.
C27_Alphabets ==
    /\ [](Covered(P) /\ P.initial_stack_symbol \in P.stack_alphabet)
    /\ [][Grown]_vars

-----------------------------------------------------------------------------
(* accepts, step and is_deterministic called one after another on one      *)
(* automaton.  ret keeps, next to the value returned, the list passed to   *)
(* step as it is after the call, and what accepts has returned so far.     *)

MaxReadCalls == 2

ReadAutomata ==
    {TestAnBn} \cup SmallAutomata({"q0", "q1"}, ExecCandidates, 1)

ReadWords == WordsUpTo(1) \cup {Str("ab")}

InitRead ==
    /\ P \in ReadAutomata
    /\ C = NoAutomaton
    /\ err = NoError
    /\ call = NoCall
    /\ ret = [ value |-> None, stack |-> << >>, results |-> {},
               repeated |-> FALSE, calls |-> 0 ]

ReadAccepts(word, acceptance_mode) ==
    /\ ret.calls < MaxReadCalls
    /\ call' = <<"accepts", word, acceptance_mode>>
    /\ \E value \in {accepts(P, word, acceptance_mode)} :
          ret' = [ value |-> value,
                   stack |-> << >>,
                   results |-> ret.results \cup {<<word, acceptance_mode, value>>},
                   repeated |-> \E r \in ret.results :
                                    r[1] = word /\ r[2] = acceptance_mode,
                   calls |-> ret.calls + 1 ]
    /\ UNCHANGED <<P, C, err>>

ReadStep(state, remaining_input, stack) ==
    /\ ret.calls < MaxReadCalls
    /\ call' = <<"step", state, remaining_input, stack>>
    /\ ret' = [ ret EXCEPT
                  !.value = step(P, state, remaining_input, stack),
                  !.stack = stack_after_step(P, state, remaining_input, stack),
                  !.repeated = FALSE,
                  !.calls = @ + 1 ]
    /\ UNCHANGED <<P, C, err>>

ReadIsDeterministic ==
    /\ ret.calls < MaxReadCalls
    /\ call' = <<"is_deterministic">>
    /\ ret' = [ ret EXCEPT !.value = is_deterministic(P), !.stack = << >>,
                           !.repeated = FALSE, !.calls = @ + 1 ]
    /\ UNCHANGED <<P, C, err>>

NextRead ==
    \/ \E word \in ReadWords, acceptance_mode \in AcceptanceModes :
          ReadAccepts(word, acceptance_mode)
    \/ \E state \in P.states, remaining_input \in WordsUpTo(1),
          stack \in StacksUpTo(MaxStackLen) :
              ReadStep(state, remaining_input, stack)
    \/ ReadIsDeterministic

SpecRead == InitRead /\ [][NextRead]_vars

====
